---- MODULE Spec2Model ----
(***************************************************************************)
(* Litterbox monitoring system: the batching RabbitMQ consumer             *)
(* (data_persister/db_writer.py), the store gateway                        *)
(* (database/postgresql_gateway.py) and the edge-device simulator's        *)
(* publisher (data_source/litterbox_edge_device_simulator.py).             *)
(***************************************************************************)
EXTENDS Integers, Sequences, FiniteSets, TLC

(***************************************************************************)
(* Bounds of the model.                                                    *)
(***************************************************************************)
MaxId == 2          \* complete records carry the ids 1..MaxId
MaxTag == 4         \* deliveries the broker hands to the consumer
MaxPubRecords == 4  \* records in a batch handed to the publisher's process_data
MaxShutdownCalls == 2   \* invocations of LitterboxConsumer.shutdown

(***************************************************************************)
(* Configuration (db_writer.py reads both from the environment; the model  *)
(* runs the consumer configured with small values).                        *)
(***************************************************************************)
BATCH_SIZE == 2
BATCH_TIMEOUT == 2
MaxTime == BATCH_TIMEOUT + 1   \* the clock runs until just past one timeout
\* PREFETCH_COUNT is read from the environment like the two above; the model
\* runs the consumer with a prefetch limit below and above BATCH_SIZE.
PrefetchCounts == {BATCH_SIZE - 1, BATCH_SIZE + 1}

Ids == 1..MaxId
BadUuid == -1    \* an id string uuid.UUID() cannot parse
PriorId == 1     \* the id a previous run may have left in the store

Min(a, b) == IF a < b THEN a ELSE b

(***************************************************************************)
(* Message bodies on the wire.  json: the body is well-formed JSON;        *)
(* id: the "id" string (BadUuid when it is no UUID); enter_time: "iso"     *)
(* when the field holds an ISO-8601 string, "absent" when the key is       *)
(* missing.                                                                *)
(***************************************************************************)
GoodBody(i) == [json |-> TRUE, id |-> i, enter_time |-> "iso"]
NoEnterBody == [json |-> TRUE, id |-> 0, enter_time |-> "absent"]
BadUuidBody == [json |-> TRUE, id |-> BadUuid, enter_time |-> "iso"]
NotJsonBody == [json |-> FALSE, id |-> 0, enter_time |-> "absent"]
Bodies == {GoodBody(i) : i \in Ids} \cup {NoEnterBody, BadUuidBody, NotJsonBody}

(***************************************************************************)
(* Broker topology.  The publisher declares the exchange litterbox_events  *)
(* with EXCHANGE_TYPE and publishes with an empty routing key; the         *)
(* consumer declares the same exchange with the literal "topic" and binds  *)
(* litterbox_usage_queue to it with ROUTING_KEY.  Both declare it durable. *)
(***************************************************************************)
EXCHANGE_TYPE == "fanout"
ConsumerExchangeType == "topic"
ROUTING_KEY == "litterbox.usage"
PublishRoutingKey == ""

\* exchange_declare of an existing exchange is accepted only with the
\* parameters it was declared with; otherwise the broker closes the channel
\* (406 PRECONDITION_FAILED) and the call raises.
DeclareAccepted(existing, type) == existing \in {"none", type}

\* A fanout exchange routes to every bound queue whatever the routing key; a
\* topic exchange routes to the queues whose binding key matches the routing
\* key (a binding key without wildcards matches only the equal routing key).
Routes(type, key, bound, bindingKey) ==
    bound /\ (type = "fanout" \/ (type = "topic" /\ key = bindingKey))

\* What the broker holds when a process starts: nothing declared yet, the
\* exchange as the publisher declared it, or the exchange and the bound queue
\* as the consumer's setup_rabbitmq declared them.
BrokerTopologies ==
    {<<"none", FALSE>>, <<EXCHANGE_TYPE, FALSE>>, <<ConsumerExchangeType, TRUE>>}

NoError == [kind |-> "none", id |-> 0]
Error(k, i) == [kind |-> k, id |-> i]

VARIABLES
    pc,               \* position of LitterboxConsumer.run
    loopPc,           \* position inside the while loop of start_consuming
    should_stop,      \* self.should_stop
    message_batch,    \* self.message_batch: sequence of <<message_data, delivery_tag>>
    last_batch_time,  \* self.last_batch_time
    now,              \* time.time()
    chanOpen,         \* the broker channel/connection of the consumer is open
    connOpen,         \* self.connection is set and not closed
    prefetch_count,   \* PREFETCH_COUNT, the basic_qos limit of unacked deliveries
    dbOpen,           \* db_gateway.engine is not disposed
    setupResult,      \* how run's setup_database / setup_rabbitmq went
    shutdownRec,      \* what the calls of shutdown did
    exitStatus,       \* process exit status (0, or 1 after sys.exit(1))
    store,            \* ids of the rows of litterbox_usage_data
    ready,            \* bodies waiting in litterbox_usage_queue
    unacked,          \* delivery tags handed out and not yet released
    nextTag,          \* next delivery tag the channel assigns
    offered,          \* delivery tags that were appended to message_batch
    ackLog,           \* <<delivery tag, id of the record batched with it>> of every
                      \* successful basic_ack, in order
    nackLog,          \* <<delivery tag, requeue>> of every successful basic_nack
    lastCb,           \* what the last delivery callback did
    lastCycle,        \* what the last write cycle (process_batch) did
    pubPc,            \* position of LitterboxSimulator.process_data
    pubData,          \* the data argument of process_data
    pubIdx,           \* index of the next record of the for loop
    successful_publishes,
    failed_publishes,
    pubConn,          \* the connection of get_rabbitmq_connection
    exchange,         \* records the exchange accepted from basic_publish, in order
    publishCalls,     \* calls of publish_to_rabbitmq made by this process_data
    files,            \* the files written by save_data_to_file, in order
    saveCalls,        \* the data argument of every save_data_to_file call, in order
    fileFailed,       \* some file write of this process_data failed
    connectResult,    \* how get_rabbitmq_connection's connect went
    routed,           \* records the exchange routed into litterbox_usage_queue
    exchangeType,     \* broker: type of the exchange litterbox_events, "none" while
                      \* it is not declared
    queueBound,       \* broker: litterbox_usage_queue is declared and bound
    codecPc,          \* round trip of one record: "made", "published", "parsed"
    usage_record,     \* a record built by generate_week_data
    message_body,     \* the body publish_to_rabbitmq sends for usage_record
    message_data,     \* what _parse_message returns for message_body
    simPc,            \* simulator: "off", "constructed", "started"
    current_week_start,   \* self.current_week_start, as a day number
    today,            \* the UTC day datetime.now() falls on, as a day number
    genCalls,         \* the week_start argument of every generate_week_data call
    processCalls,     \* the number of process_data calls
    lastCheck,        \* what the last _check_and_generate_next_batch did
    genPc,            \* generate_week_data: "off", "day", "use", "done"
    week_start,       \* the week_start argument, as a day number
    day_offset,       \* the loop variable of "for day_offset in range(7)"
    daily_usage_times,    \* the sorted enter times of the current day, in seconds
    use_idx,          \* index of the next enter_time of the inner loop
    usage_count,      \* len(usage_data)
    appended_record,  \* the record appended last to usage_data
    table,            \* the committed rows of litterbox_usage_data (their ids), as
                      \* two competing consumer instances see them
    tx,               \* per consumer instance: its insert_litterbox_usage_data call
    committed_batches \* the batches whose transaction committed, in order

cvars == <<pc, loopPc, should_stop, message_batch, last_batch_time, now, chanOpen,
           connOpen, prefetch_count, dbOpen, setupResult, shutdownRec, exitStatus, store, ready,
           unacked, nextTag, offered, ackLog, nackLog, lastCb, lastCycle>>
pvars == <<pubPc, pubData, pubIdx, successful_publishes, failed_publishes, pubConn,
           exchange, publishCalls, files, saveCalls, fileFailed, connectResult,
           routed>>
bvars == <<exchangeType, queueBound>>
codecVars == <<codecPc, usage_record, message_body, message_data>>
simVars == <<simPc, current_week_start, today, genCalls, processCalls, lastCheck>>
genVars == <<genPc, week_start, day_offset, daily_usage_times, use_idx, usage_count,
             appended_record>>
storeVars == <<table, tx, committed_batches>>
xvars == <<codecVars, simVars, genVars, storeVars>>
pipelineVars == <<cvars, pvars, bvars>>
vars == <<cvars, pvars, bvars, xvars>>

NoCb == [tag |-> 0, body |-> NotJsonBody, parsed |-> FALSE, appended |-> FALSE,
         nacked |-> FALSE, requeue |-> FALSE, raised |-> FALSE, cycle |-> FALSE,
         heldBefore |-> 0, elapsed |-> 0]
NoShutdown == [calls |-> 0, chanBefore |-> FALSE, heldBefore |-> 0, steps |-> <<>>,
               raised |-> FALSE]
NoCycle == [batch |-> <<>>, storeBefore |-> {}, fault |-> FALSE, chanHeld |-> TRUE,
            committed |-> FALSE, commits |-> 0, acks |-> <<>>, nacks |-> <<>>,
            err |-> NoError,
            raised |-> FALSE, from |-> "none"]

(***************************************************************************)
(* The values of a usage record and of its JSON form.  A value carries its *)
(* Python type: a uuid.UUID (a: its number), a float (a: tenths), a        *)
(* datetime (a: seconds, b: microseconds, c: UTC offset, "" when naive) or *)
(* a str (c: the form of the text, d: the digits of a fraction of seconds).*)
(***************************************************************************)
NoValue == [type |-> "none", a |-> 0, b |-> 0, d |-> 0, c |-> ""]
ErrorValue == [type |-> "error", a |-> 0, b |-> 0, d |-> 0, c |-> ""]
UuidValue(n) == [type |-> "UUID", a |-> n, b |-> 0, d |-> 0, c |-> ""]
FloatValue(tenths) == [type |-> "float", a |-> tenths, b |-> 0, d |-> 0, c |-> ""]
DatetimeValue(seconds, micro, offset) ==
    [type |-> "datetime", a |-> seconds, b |-> micro, d |-> 0, c |-> offset]

RecordFields == {"id", "litterbox_edge_device_id", "enter_time", "exit_time",
                 "weight_enter", "weight_exit", "created_at"}
NoRecord == [k \in RecordFields |-> NoValue]
ParseFailed == [k \in RecordFields |-> ErrorValue]

(***************************************************************************)
(* str(uuid): the 36 character hexadecimal form.                           *)
(***************************************************************************)
StrOfUuid(v) == [type |-> "str", a |-> v.a, b |-> 0, d |-> 0, c |-> "hex"]

(***************************************************************************)
(* datetime.isoformat(): "YYYY-MM-DDTHH:MM:SS", then ".ffffff" unless the  *)
(* microseconds are 0, then the UTC offset of an aware datetime.           *)
(***************************************************************************)
MicroDigits == 6
isoformat(v) ==
    [type |-> "str", a |-> v.a, b |-> v.b,
     d |-> IF v.b = 0 THEN 0 ELSE MicroDigits,
     c |-> IF v.c = "" THEN "T" ELSE "T+00:00"]

(***************************************************************************)
(* str(datetime), which json.dumps(default=str) would apply to a datetime  *)
(* left in the dictionary: the same text with a space for the "T".         *)
(***************************************************************************)
StrOfDatetime(v) ==
    [type |-> "str", a |-> v.a, b |-> v.b,
     d |-> IF v.b = 0 THEN 0 ELSE MicroDigits,
     c |-> IF v.c = "" THEN " " ELSE " +00:00"]

(***************************************************************************)
(* uuid.UUID(text) and datetime.fromisoformat(text.replace("Z", "+00:00")):*)
(* both raise ValueError on a text of another form.                        *)
(***************************************************************************)
UuidOfStr(v) ==
    IF v.type = "str" /\ v.c = "hex" THEN UuidValue(v.a) ELSE ErrorValue
fromisoformat(v) ==
    IF v.type = "str" /\ v.c \in {"T", "T+00:00", " ", " +00:00"}
    THEN DatetimeValue(v.a, IF v.d = 0 THEN 0 ELSE v.b,
                       IF v.c \in {"T+00:00", " +00:00"} THEN "+00:00" ELSE "")
    ELSE ErrorValue

(***************************************************************************)
(* LitterboxSimulator.prepare_data_for_serialization: str() on "id" and    *)
(* "litterbox_edge_device_id", isoformat() on every datetime value.        *)
(***************************************************************************)
prepare_data_for_serialization(data) ==
    [k \in DOMAIN data |->
        IF k \in {"id", "litterbox_edge_device_id"} THEN StrOfUuid(data[k])
        ELSE IF data[k].type = "datetime" THEN isoformat(data[k])
        ELSE data[k]]

(***************************************************************************)
(* json.dumps(serializable_data, default=str) followed by the consumer's   *)
(* json.loads(body.decode("utf-8")): a str and a float come back as they   *)
(* went in, any other value comes back as the str that default=str made.   *)
(***************************************************************************)
json_dumps(data) ==
    [k \in DOMAIN data |->
        IF data[k].type = "UUID" THEN StrOfUuid(data[k])
        ELSE IF data[k].type = "datetime" THEN StrOfDatetime(data[k])
        ELSE data[k]]
json_loads(body) == body

(***************************************************************************)
(* LitterboxConsumer._parse_message, field by field: uuid.UUID on "id" and *)
(* "litterbox_edge_device_id", fromisoformat on the datetime_fields that   *)
(* hold a str; a ValueError is re-raised.                                  *)
(***************************************************************************)
datetime_fields_without_created_at == {"enter_time", "exit_time"}   \* mutant
datetime_fields == {"enter_time", "exit_time", "created_at"}
_parse_message_fields(body) ==
    LET loaded == json_loads(body)
        ids == [k \in DOMAIN loaded |->
                   IF k \in {"id", "litterbox_edge_device_id"}
                   THEN UuidOfStr(loaded[k]) ELSE loaded[k]]
        dts == [k \in DOMAIN ids |->
                   IF k \in datetime_fields /\ ids[k].type = "str"
                   THEN fromisoformat(ids[k]) ELSE ids[k]]
    IN  IF \E k \in DOMAIN dts : dts[k].type = "error" THEN ParseFailed ELSE dts

(***************************************************************************)
(* LitterboxSimulator.generate_session_duration: random.normalvariate(120, *)
(* 60) clamped to [30, 300] and truncated by int().  The draw is given in  *)
(* tenths of a second.                                                     *)
(***************************************************************************)
MinSessionSeconds == 30
MaxSessionSeconds == 300
Max2(x, y) == IF x >= y THEN x ELSE y
Min2(x, y) == IF x <= y THEN x ELSE y
IntOfTenths(x) == IF x >= 0 THEN x \div 10 ELSE -((-x) \div 10)
generate_session_duration_unclamped(raw) == IntOfTenths(raw)   \* mutant
generate_session_duration(raw) ==
    IntOfTenths(Max2(10 * MinSessionSeconds, Min2(10 * MaxSessionSeconds, raw)))
RawDurations == {-500, 299, 305, 1205, 2999, 3009}

(***************************************************************************)
(* LitterboxSimulator.generate_weight_data, in tenths of a pound: the      *)
(* empty box, the litter and the cat on entering; the empty box, the       *)
(* litter and the waste on leaving.  A draw is <<litter, cat, waste>>.     *)
(***************************************************************************)
EMPTY_LITTERBOX_WEIGHT == 50
WeightDraws == {<<176, 66, 0>>, <<331, 132, 1>>}
generate_weight_data(w) ==
    <<EMPTY_LITTERBOX_WEIGHT + w[1] + w[2], EMPTY_LITTERBOX_WEIGHT + w[1] + w[3]>>

(***************************************************************************)
(* The usage_record dictionary generate_week_data builds for one use:      *)
(* a fresh uuid4, the fixed EDGE_DEVICE_ID, enter_time, exit_time =        *)
(* enter_time + session_duration, the weights and datetime.now(utc).       *)
(***************************************************************************)
EDGE_DEVICE_ID == UuidValue(0)
UsageRecord(n, enter_time, session_duration, weights, created_at) ==
    [id |-> UuidValue(n),
     litterbox_edge_device_id |-> EDGE_DEVICE_ID,
     enter_time |-> enter_time,
     exit_time |-> DatetimeValue(enter_time.a + session_duration, enter_time.b,
                                 enter_time.c),
     weight_enter |-> FloatValue(weights[1]),
     weight_exit |-> FloatValue(weights[2]),
     created_at |-> created_at]

(***************************************************************************)
(* datetime.now(timezone.utc) at the time a record is built: an aware      *)
(* datetime whose microseconds may or may not be 0.                        *)
(***************************************************************************)
CreationTimes == {DatetimeValue(700000, 0, "+00:00"),
                  DatetimeValue(700000, 123456, "+00:00")}
EnterTimes == {DatetimeValue(21600, 0, "+00:00"), DatetimeValue(21599, 0, "+00:00")}
UsageRecords ==
    {UsageRecord(n, e, generate_session_duration(raw), generate_weight_data(w), c) :
        n \in Ids, e \in EnterTimes, raw \in RawDurations, w \in WeightDraws,
        c \in CreationTimes}

PipelineInit ==
    /\ pc = "init"
    /\ loopPc = "test"
    /\ should_stop = FALSE
    /\ message_batch = <<>>
    /\ last_batch_time = 0
    /\ now = 0
    /\ chanOpen = FALSE
    /\ connOpen = FALSE
    /\ prefetch_count \in PrefetchCounts
    /\ dbOpen = TRUE
    /\ setupResult = "none"
    /\ shutdownRec = NoShutdown
    /\ exitStatus = 0
    /\ store \in {{}, {PriorId}}
    /\ ready = Bodies
    /\ unacked = {}
    /\ nextTag = 1
    /\ offered = {}
    /\ ackLog = <<>>
    /\ nackLog = <<>>
    /\ lastCb = NoCb
    /\ lastCycle = NoCycle
    /\ pubPc = "idle"
    /\ pubData = <<>>
    /\ pubIdx = 1
    /\ successful_publishes = 0
    /\ failed_publishes = 0
    /\ pubConn = "none"
    /\ exchange = <<>>
    /\ publishCalls = 0
    /\ files = <<>>
    /\ saveCalls = <<>>
    /\ fileFailed = FALSE
    /\ connectResult = "none"
    /\ routed = <<>>
    /\ \E t \in BrokerTopologies : exchangeType = t[1] /\ queueBound = t[2]

(***************************************************************************)
(* The state in which no record is being taken through the round trip.     *)
(***************************************************************************)
CodecIdle ==
    /\ codecPc = "idle"
    /\ usage_record = NoRecord
    /\ message_body = NoRecord
    /\ message_data = NoRecord

(***************************************************************************)
(* The state in which no simulator has been constructed.                   *)
(***************************************************************************)
NoCheck == [ran |-> FALSE, today |-> 0, startBefore |-> 0, genBefore |-> 0,
            processBefore |-> 0]
SimulatorOff ==
    /\ simPc = "off"
    /\ current_week_start = 0
    /\ today = 0
    /\ genCalls = <<>>
    /\ processCalls = 0
    /\ lastCheck = NoCheck

(***************************************************************************)
(* The state in which generate_week_data is not running.                   *)
(***************************************************************************)
GeneratorOff ==
    /\ genPc = "off"
    /\ week_start = 0
    /\ day_offset = 0
    /\ daily_usage_times = <<>>
    /\ use_idx = 1
    /\ usage_count = 0
    /\ appended_record = NoRecord

(***************************************************************************)
(* The state in which no second consumer instance competes for the store.  *)
(***************************************************************************)
Instances == {1, 2}
NoTx == [pc |-> "idle", batch |-> <<>>, idx |-> 1, pending |-> <<>>, written |-> <<>>,
         released |-> "none", error |-> "none", runs |-> 0]
InstancesOff ==
    /\ table = <<>>
    /\ tx = [i \in Instances |-> NoTx]
    /\ committed_batches = <<>>

Init == PipelineInit /\ CodecIdle /\ SimulatorOff /\ GeneratorOff /\ InstancesOff

(***************************************************************************)
(* One state of the consumer, the publisher and the broker at rest, for    *)
(* the specifications that follow the simulator's own functions.           *)
(***************************************************************************)
PipelineAtRest ==
    /\ PipelineInit
    /\ store = {}
    /\ exchangeType = "none"
    /\ prefetch_count = BATCH_SIZE + 1


(***************************************************************************)
(* LitterboxConsumer._parse_message: json.loads, uuid.UUID on "id",        *)
(* datetime.fromisoformat on the datetime fields that are present.  A      *)
(* missing datetime key is skipped by the "if field in message_data" test, *)
(* so the parsed dictionary simply lacks it.  Every body of the model      *)
(* carries an "id" key.                                                    *)
(***************************************************************************)
_parse_message(body) ==
    IF ~body.json
    THEN [ok |-> FALSE, err |-> "JSONDecodeError", data |-> [id |-> 0, enter_time |-> "absent"]]
    ELSE IF body.id = BadUuid
    THEN [ok |-> FALSE, err |-> "ValueError", data |-> [id |-> 0, enter_time |-> "absent"]]
    ELSE [ok |-> TRUE, err |-> "none",
          data |-> [id |-> body.id, enter_time |-> body.enter_time]]

(***************************************************************************)
(* LitterboxUsageData: enter_time is nullable=False, so a flush of a row   *)
(* built by from_dict from a dictionary without enter_time fails.          *)
(***************************************************************************)
RowIsValid(rec) == rec.enter_time # "absent"

StagedIds(staged) == {staged[j].id : j \in 1..Len(staged)}
InvalidStaged(staged) == {j \in 1..Len(staged) : ~RowIsValid(staged[j])}
FirstOf(S) == CHOOSE j \in S : \A k \in S : j <= k

(***************************************************************************)
(* PostgreSQLGateway.insert_litterbox_usage_data: one session, one         *)
(* existence query per record (the query autoflushes the rows added so     *)
(* far, so it also sees them), session.add, and one commit at the end.     *)
(* Any exception leaves the "with" block without commit: the transaction   *)
(* is rolled back and the store is as before.  fault: the store is         *)
(* unavailable during the call.                                            *)
(***************************************************************************)
Rollback(st, e) == [committed |-> FALSE, commits |-> 0, store |-> st, err |-> e]

RECURSIVE InsertScan(_, _, _, _, _)
InsertScan(data, i, staged, st, fault) ==
    IF i > Len(data)
    THEN IF InvalidStaged(staged) # {}
         THEN Rollback(st, Error("IntegrityError",
                                 staged[FirstOf(InvalidStaged(staged))].id))
         ELSE [committed |-> TRUE, commits |-> 1, store |-> st \cup StagedIds(staged),
               err |-> NoError]
    ELSE IF fault
    THEN Rollback(st, Error("OperationalError", 0))
    ELSE IF InvalidStaged(staged) # {}
    THEN Rollback(st, Error("IntegrityError", staged[FirstOf(InvalidStaged(staged))].id))
    ELSE IF data[i].id \in st \cup StagedIds(staged)
    THEN Rollback(st, Error("ValueError", data[i].id))
    ELSE InsertScan(data, i + 1, Append(staged, data[i]), st, fault)

(***************************************************************************)
(* Mutant: a record whose id exists is skipped and the rest is committed.  *)
(***************************************************************************)
RECURSIVE InsertScanSkippingDuplicates(_, _, _, _, _)
InsertScanSkippingDuplicates(data, i, staged, st, fault) ==
    IF i > Len(data)
    THEN IF InvalidStaged(staged) # {}
         THEN Rollback(st, Error("IntegrityError",
                                 staged[FirstOf(InvalidStaged(staged))].id))
         ELSE [committed |-> TRUE, commits |-> 1, store |-> st \cup StagedIds(staged),
               err |-> NoError]
    ELSE IF fault
    THEN Rollback(st, Error("OperationalError", 0))
    ELSE IF data[i].id \in st \cup StagedIds(staged)
    THEN InsertScanSkippingDuplicates(data, i + 1, staged, st, fault)
    ELSE InsertScanSkippingDuplicates(data, i + 1, Append(staged, data[i]), st, fault)

insert_skipping_duplicates(data, st, fault) ==
    InsertScanSkippingDuplicates(data, 1, <<>>, st, fault)

insert_litterbox_usage_data(data, st, fault) == InsertScan(data, 1, <<>>, st, fault)

(***************************************************************************)
(* requeue arguments of the two basic_nack calls.                          *)
(***************************************************************************)
BatchRequeueOff == FALSE       \* mutant: the batch is nacked without requeue
BatchRequeue == TRUE
CallbackRequeueOff == FALSE    \* mutant: the callback nacks without requeue
CallbackRequeue == TRUE

(***************************************************************************)
(* LitterboxConsumer.process_batch on a non-empty batch.  budget: how many *)
(* channel calls complete before the channel is lost (a lost channel stays *)
(* lost: every later basic_ack/basic_nack raises).  The result gives the   *)
(* store after the call, the tags acked and nacked in call order, whether  *)
(* an exception left process_batch, and the budget left.                   *)
(***************************************************************************)
Tags(batch) == [i \in 1..Len(batch) |-> batch[i][2]]
IdOfTag(batch, t) == batch[CHOOSE i \in 1..Len(batch) : batch[i][2] = t][1].id
AckEntries(batch, tags) == [i \in 1..Len(tags) |-> <<tags[i], IdOfTag(batch, tags[i])>>]
Records(batch) == [i \in 1..Len(batch) |-> batch[i][1]]

(***************************************************************************)
(* Mutants of process_batch: the handles are acked before the insert is    *)
(* known to have committed; the nack loop also runs after a successful     *)
(* ack loop; the handles are acked last-first.                             *)
(***************************************************************************)
process_batch_acking_first(batch, st, fault, budget) ==
    LET n == Len(batch)
        res == insert_litterbox_usage_data(Records(batch), st, fault)
    IN  [store |-> res.store, committed |-> res.committed, commits |-> res.commits,
         err |-> res.err, acks |-> SubSeq(Tags(batch), 1, Min(budget, n)),
         nacks |-> <<>>, raised |-> budget < n,
         left |-> IF budget < n THEN 0 ELSE budget - n]

process_batch_nacking_always(batch, st, fault, budget) ==
    LET n == Len(batch)
        res == insert_litterbox_usage_data(Records(batch), st, fault)
        acks == IF res.committed THEN SubSeq(Tags(batch), 1, Min(budget, n)) ELSE <<>>
    IN  [store |-> res.store, committed |-> res.committed, commits |-> res.commits,
         err |-> res.err, acks |-> acks,
         nacks |-> IF budget >= n THEN Tags(batch) ELSE <<>>,
         raised |-> budget < n, left |-> IF budget < n THEN 0 ELSE budget - n]

process_batch_acking_reversed(batch, st, fault, budget) ==
    LET n == Len(batch)
        res == insert_litterbox_usage_data(Records(batch), st, fault)
        ok == res.committed /\ budget >= n
    IN  [store |-> res.store, committed |-> res.committed, commits |-> res.commits,
         err |-> res.err,
         acks |-> IF ok THEN [i \in 1..n |-> Tags(batch)[n + 1 - i]] ELSE <<>>,
         nacks |-> IF ~res.committed THEN SubSeq(Tags(batch), 1, Min(budget, n))
                   ELSE <<>>,
         raised |-> budget < n, left |-> IF budget < n THEN 0 ELSE budget - n]

process_batch(batch, st, fault, budget) ==
    LET n == Len(batch)
        res == insert_litterbox_usage_data(Records(batch), st, fault)
        acks == IF res.committed THEN SubSeq(Tags(batch), 1, Min(budget, n)) ELSE <<>>
        ackRaised == res.committed /\ budget < n
        failed == ~res.committed \/ ackRaised
        left == IF ~res.committed THEN budget
                ELSE IF ackRaised THEN 0 ELSE budget - n
        nacks == IF failed THEN SubSeq(Tags(batch), 1, Min(left, n)) ELSE <<>>
        raised == failed /\ left < n
    IN  [store |-> res.store, committed |-> res.committed, commits |-> res.commits,
         err |-> res.err,
         acks |-> acks, nacks |-> nacks, raised |-> raised,
         left |-> IF failed THEN (IF raised THEN 0 ELSE left - n) ELSE left]

(***************************************************************************)
(* LitterboxConsumer._should_process_batch.                                *)
(***************************************************************************)
_should_process_batch_size_only(batch, t, last) ==      \* mutant: no time trigger
    Len(batch) >= BATCH_SIZE

_should_process_batch_timeout_only(batch, t, last) ==   \* mutant: no size test
    batch # <<>> /\ t - last >= BATCH_TIMEOUT

_should_process_batch_above_size(batch, t, last) ==      \* mutant: > for >=
    \/ Len(batch) > BATCH_SIZE
    \/ (batch # <<>> /\ t - last >= BATCH_TIMEOUT)

_should_process_batch(batch, t, last) ==
    \/ Len(batch) >= BATCH_SIZE
    \/ (batch # <<>> /\ t - last >= BATCH_TIMEOUT)

(***************************************************************************)
(* The broker's side of a release: an acked delivery is gone, a delivery   *)
(* nacked with requeue is back in the queue, and when the channel is lost  *)
(* every delivery still unacknowledged is back in the queue.               *)
(***************************************************************************)
SeqSet(s) == {s[i] : i \in 1..Len(s)}
NackEntries(tags, requeue) == [i \in 1..Len(tags) |-> <<tags[i], requeue>>]

UnackedAfter(un, acks, nacks, lost) ==
    IF lost THEN {} ELSE {u \in un : u[1] \notin SeqSet(acks) \cup SeqSet(nacks)}

ReadyAfter(rd, un, acks, nacks, requeue, lost) ==
    rd \cup {u[2] : u \in {v \in un : v[1] \in SeqSet(nacks) /\ requeue}}
       \cup (IF lost
             THEN {u[2] : u \in {v \in un : v[1] \notin SeqSet(acks) \cup SeqSet(nacks)}}
             ELSE {})

CycleRecord(batch, st, fault, r, from) ==
    [batch |-> batch, storeBefore |-> st, fault |-> fault, chanHeld |-> ~r.raised,
     committed |-> r.committed, commits |-> r.commits, acks |-> r.acks, nacks |-> r.nacks, err |-> r.err,
     raised |-> r.raised, from |-> from]


(***************************************************************************)
(* LitterboxConsumer.run up to the loop: setup_signal_handlers,            *)
(* setup_database, setup_rabbitmq, basic_consume.  A failure of either     *)
(* setup raises into run's except (sys.exit(1)) and its finally.           *)
(***************************************************************************)
RunPcEnteringAnyway(result) == "consuming"   \* mutant: the loop is entered anyway
RunPc(result) == IF result = "ok" THEN "consuming" ELSE "shutdown"

RunSetup(dbOk, mqOk) ==
    LET result == IF ~dbOk THEN "db_failed"
                  ELSE IF ~mqOk THEN "mq_connect_failed"
                  ELSE IF ~DeclareAccepted(exchangeType, ConsumerExchangeType)
                       THEN "exchange_mismatch"
                       ELSE "ok"
    IN  /\ UNCHANGED <<pvars, xvars>>
        /\ pc = "init"
        /\ setupResult' = result
        /\ pc' = RunPc(result)
        /\ IF result = "ok"
           THEN /\ chanOpen' = TRUE
                /\ connOpen' = TRUE
                /\ exitStatus' = exitStatus
                /\ exchangeType' = ConsumerExchangeType
                /\ queueBound' = TRUE
           ELSE /\ chanOpen' = FALSE
                /\ connOpen' = (result = "exchange_mismatch")
                /\ exitStatus' = 1
                /\ UNCHANGED bvars
        /\ loopPc' = "test"
        /\ lastCb' = NoCb
        /\ lastCycle' = NoCycle
        /\ UNCHANGED <<should_stop, message_batch, last_batch_time, now, dbOpen,
                       prefetch_count, shutdownRec, store, ready, unacked, nextTag, offered, ackLog,
                       nackLog>>

(***************************************************************************)
(* LitterboxConsumer.store_batch_to_db for one delivery, dispatched by     *)
(* connection.process_data_events.  An exception that leaves the callback  *)
(* leaves process_data_events and start_consuming, and run answers it with *)
(* sys.exit(1) and, in its finally, shutdown.                              *)
(***************************************************************************)
CallbackReject(body, budget) ==
    LET tag == nextTag
        nackOk == budget >= 1
    IN  /\ ~_parse_message(body).ok
        /\ nackLog' = IF nackOk THEN Append(nackLog, <<tag, CallbackRequeue>>) ELSE nackLog
        /\ ready' = IF nackOk /\ ~CallbackRequeue
                    THEN ready \ {body}
                    ELSE ReadyAfter(ready, unacked, <<>>, <<>>, FALSE, ~nackOk)
        /\ unacked' = UnackedAfter(unacked, <<>>, <<>>, ~nackOk)
        /\ chanOpen' = nackOk
        /\ pc' = IF nackOk THEN pc ELSE "shutdown"
        /\ exitStatus' = IF nackOk THEN exitStatus ELSE 1
        /\ lastCb' = [tag |-> tag, body |-> body, parsed |-> FALSE, appended |-> FALSE,
                      nacked |-> nackOk, requeue |-> nackOk /\ CallbackRequeue,
                      raised |-> ~nackOk, cycle |-> FALSE,
                      heldBefore |-> Len(message_batch),
                      elapsed |-> now - last_batch_time]
        /\ lastCycle' = NoCycle
        /\ UNCHANGED <<message_batch, last_batch_time, store, ackLog>>

CallbackAccept(body, fault, budget) ==
    LET tag == nextTag
        p == _parse_message(body)
        batch == Append(message_batch, <<p.data, tag>>)
        un == unacked \cup {<<tag, body>>}
        r == process_batch(batch, store, fault, budget)
        cbNackOk == r.left >= 1
    IN  /\ p.ok
        /\ IF _should_process_batch(batch, now, last_batch_time)
           THEN /\ store' = r.store
                /\ ackLog' = ackLog \o AckEntries(batch, r.acks)
                /\ nackLog' = nackLog \o NackEntries(r.nacks, BatchRequeue)
                               \o (IF r.raised /\ cbNackOk
                                   THEN <<<<tag, CallbackRequeue>>>> ELSE <<>>)
                /\ message_batch' = <<>>
                /\ last_batch_time' = now
                /\ ready' = ReadyAfter(ready \ {body}, un, r.acks, r.nacks,
                                       BatchRequeue, r.raised)
                /\ unacked' = UnackedAfter(un, r.acks, r.nacks, r.raised)
                /\ chanOpen' = ~r.raised
                /\ pc' = IF r.raised /\ ~cbNackOk THEN "shutdown" ELSE pc
                /\ exitStatus' = IF r.raised /\ ~cbNackOk THEN 1 ELSE exitStatus
                /\ lastCycle' = CycleRecord(batch, store, fault, r, "callback")
                /\ lastCb' = [tag |-> tag, body |-> body, parsed |-> TRUE,
                              appended |-> TRUE, nacked |-> FALSE, requeue |-> FALSE,
                              raised |-> r.raised /\ ~cbNackOk, cycle |-> TRUE,
                              heldBefore |-> Len(message_batch),
                      elapsed |-> now - last_batch_time]
           ELSE /\ fault = FALSE /\ budget = Len(batch)
                /\ message_batch' = batch
                /\ ready' = ready \ {body}
                /\ unacked' = un
                /\ lastCycle' = NoCycle
                /\ lastCb' = [tag |-> tag, body |-> body, parsed |-> TRUE,
                              appended |-> TRUE, nacked |-> FALSE, requeue |-> FALSE,
                              raised |-> FALSE, cycle |-> FALSE,
                              heldBefore |-> Len(message_batch),
                      elapsed |-> now - last_batch_time]
                /\ UNCHANGED <<store, ackLog, nackLog, last_batch_time, chanOpen, pc,
                             exitStatus>>

store_batch_to_db ==
    /\ UNCHANGED <<pvars, bvars, xvars>>
    /\ pc = "consuming"
    /\ loopPc = "events"
    /\ chanOpen
    /\ nextTag <= MaxTag
    /\ Cardinality(unacked) < prefetch_count
    /\ \E body \in ready :
         \/ \E budget \in 0..1 : CallbackReject(body, budget)
         \/ \E fault \in BOOLEAN, budget \in 0..(Len(message_batch) + 1) :
               CallbackAccept(body, fault, budget)
    /\ nextTag' = nextTag + 1
    /\ offered' = IF lastCb'.appended THEN offered \cup {nextTag} ELSE offered
    /\ connOpen' = chanOpen'
    /\ UNCHANGED <<loopPc, should_stop, now, prefetch_count, dbOpen, setupResult,
                   shutdownRec>>

(***************************************************************************)
(* The while loop of start_consuming: the test of should_stop, then        *)
(* connection.process_data_events (the callbacks above run inside it; it   *)
(* raises when the connection is lost), then the timeout check.            *)
(***************************************************************************)
LoopTest ==
    /\ UNCHANGED <<pvars, bvars, xvars>>
    /\ pc = "consuming"
    /\ loopPc = "test"
    /\ IF should_stop
       THEN pc' = "shutdown" /\ loopPc' = loopPc
       ELSE pc' = pc /\ loopPc' = "events"
    /\ lastCb' = NoCb
    /\ lastCycle' = NoCycle
    /\ UNCHANGED <<should_stop, message_batch, last_batch_time, now, chanOpen, connOpen,
                   prefetch_count, dbOpen, setupResult, shutdownRec, exitStatus, store, ready, unacked,
                   nextTag, offered, ackLog, nackLog>>

EventsDone ==
    /\ UNCHANGED <<pvars, bvars, xvars>>
    /\ pc = "consuming"
    /\ loopPc = "events"
    /\ IF connOpen
       THEN pc' = pc /\ loopPc' = "check" /\ exitStatus' = exitStatus
       ELSE pc' = "shutdown" /\ loopPc' = loopPc /\ exitStatus' = 1
    /\ lastCb' = NoCb
    /\ lastCycle' = NoCycle
    /\ UNCHANGED <<should_stop, message_batch, last_batch_time, now, chanOpen, connOpen,
                   prefetch_count, dbOpen, setupResult, shutdownRec, store, ready, unacked, nextTag,
                   offered, ackLog, nackLog>>

(***************************************************************************)
(* The effect of one process_batch call on the consumer and the broker,    *)
(* shared by the loop's timeout check and by shutdown.                     *)
(***************************************************************************)
WriteCycleKeepingFailedBatch(fault, budget, from) ==   \* mutant: no finally
    LET r == process_batch(message_batch, store, fault, budget)
    IN  /\ store' = r.store
        /\ ackLog' = ackLog \o AckEntries(message_batch, r.acks)
        /\ nackLog' = nackLog \o NackEntries(r.nacks, BatchRequeue)
        /\ message_batch' = IF r.committed /\ ~r.raised THEN <<>> ELSE message_batch
        /\ last_batch_time' = IF r.committed /\ ~r.raised THEN now ELSE last_batch_time
        /\ ready' = ReadyAfter(ready, unacked, r.acks, r.nacks, BatchRequeue, r.raised)
        /\ unacked' = UnackedAfter(unacked, r.acks, r.nacks, r.raised)
        /\ lastCycle' = CycleRecord(message_batch, store, fault, r, from)

WriteCycle(fault, budget, from) ==
    LET r == process_batch(message_batch, store, fault, budget)
    IN  /\ store' = r.store
        /\ ackLog' = ackLog \o AckEntries(message_batch, r.acks)
        /\ nackLog' = nackLog \o NackEntries(r.nacks, BatchRequeue)
        /\ message_batch' = <<>>
        /\ last_batch_time' = now
        /\ ready' = ReadyAfter(ready, unacked, r.acks, r.nacks, BatchRequeue, r.raised)
        /\ unacked' = UnackedAfter(unacked, r.acks, r.nacks, r.raised)
        /\ lastCycle' = CycleRecord(message_batch, store, fault, r, from)

LoopCheck ==
    /\ UNCHANGED <<pvars, bvars, xvars>>
    /\ pc = "consuming"
    /\ loopPc = "check"
    /\ IF _should_process_batch(message_batch, now, last_batch_time)
       THEN \E fault \in BOOLEAN,
               budget \in (IF chanOpen THEN 0..Len(message_batch) ELSE {0}) :
               /\ WriteCycle(fault, budget, "loop")
               /\ chanOpen' = (chanOpen /\ ~lastCycle'.raised)
               /\ IF lastCycle'.raised
                  THEN pc' = "shutdown" /\ loopPc' = loopPc /\ exitStatus' = 1
                  ELSE pc' = pc /\ loopPc' = "test" /\ exitStatus' = exitStatus
       ELSE /\ loopPc' = "test"
            /\ lastCycle' = NoCycle
            /\ UNCHANGED <<pc, exitStatus, chanOpen, store, ackLog, nackLog,
                           message_batch, last_batch_time, ready, unacked>>
    /\ lastCb' = NoCb
    /\ connOpen' = IF chanOpen THEN chanOpen' ELSE connOpen
    /\ UNCHANGED <<should_stop, now, prefetch_count, dbOpen, setupResult, shutdownRec,
                   nextTag, offered>>

(***************************************************************************)
(* signal_handler: sets should_stop.                                       *)
(***************************************************************************)
signal_handler_clearing_batch ==   \* mutant: the handler touches the accumulator
    /\ UNCHANGED <<pvars, bvars, xvars>>
    /\ pc = "consuming"
    /\ ~should_stop
    /\ should_stop' = TRUE
    /\ message_batch' = <<>>
    /\ UNCHANGED <<pc, loopPc, last_batch_time, now, chanOpen, connOpen,
                   prefetch_count, dbOpen, setupResult, shutdownRec, exitStatus, store,
                   ready, unacked, nextTag, offered, ackLog, nackLog, lastCb, lastCycle>>

signal_handler_exiting ==   \* mutant: the handler leaves the loop itself
    /\ UNCHANGED <<pvars, bvars, xvars>>
    /\ pc = "consuming"
    /\ ~should_stop
    /\ should_stop' = TRUE
    /\ pc' = "shutdown"
    /\ UNCHANGED <<loopPc, message_batch, last_batch_time, now, chanOpen, connOpen,
                   prefetch_count, dbOpen, setupResult, shutdownRec, exitStatus, store, ready, unacked,
                   nextTag, offered, ackLog, nackLog, lastCb, lastCycle>>

signal_handler ==
    /\ UNCHANGED <<pvars, bvars, xvars>>
    /\ pc = "consuming"
    /\ ~should_stop
    /\ should_stop' = TRUE
    /\ UNCHANGED <<pc, loopPc, message_batch, last_batch_time, now, chanOpen, connOpen,
                   prefetch_count, dbOpen, setupResult, shutdownRec, exitStatus, store, ready, unacked,
                   nextTag, offered, ackLog, nackLog, lastCb, lastCycle>>

(***************************************************************************)
(* LitterboxConsumer.shutdown, called from run's finally.  When the final  *)
(* process_batch raises, the exception leaves shutdown before anything is  *)
(* closed (pc = "aborted").  shutdownRec.steps lists, in the order the     *)
(* code makes them, the calls this invocation made.  A later invocation    *)
(* (shutdown is a public method) finds whatever the earlier one left.      *)
(***************************************************************************)
ShutdownStepsClosingFirst(ranCycle, raised, chan, conn, db) ==   \* mutant
    IF raised
    THEN <<"process_batch">>
    ELSE (IF conn THEN <<"connection.close">> ELSE <<>>)
         \o (IF chan THEN <<"stop_consuming">> ELSE <<>>)
         \o (IF db THEN <<"disconnect">> ELSE <<>>)
         \o (IF ranCycle THEN <<"process_batch">> ELSE <<>>)

ShutdownSteps(ranCycle, raised, chan, conn, db) ==
    (IF ranCycle THEN <<"process_batch">> ELSE <<>>)
    \o (IF raised
        THEN <<>>
        ELSE (IF chan THEN <<"stop_consuming">> ELSE <<>>)
             \o (IF conn THEN <<"connection.close">> ELSE <<>>)
             \o (IF db THEN <<"disconnect">> ELSE <<>>))

shutdown ==
    /\ UNCHANGED <<pvars, bvars, xvars>>
    /\ \/ pc = "shutdown"
       \/ pc \in {"stopped", "aborted"} /\ shutdownRec.calls < MaxShutdownCalls
    /\ IF message_batch # <<>>
       THEN \E fault \in BOOLEAN,
               budget \in (IF chanOpen THEN 0..Len(message_batch) ELSE {0}) :
               /\ WriteCycle(fault, budget, "shutdown")
               /\ IF lastCycle'.raised
                  THEN pc' = "aborted" /\ dbOpen' = dbOpen /\ exitStatus' = 1
                  ELSE pc' = "stopped" /\ dbOpen' = FALSE /\ exitStatus' = exitStatus
       ELSE /\ pc' = "stopped"
            /\ dbOpen' = FALSE
            /\ ready' = ReadyAfter(ready, unacked, <<>>, <<>>, FALSE, TRUE)
            /\ unacked' = {}
            /\ lastCycle' = NoCycle
            /\ UNCHANGED <<exitStatus, store, ackLog, nackLog, message_batch,
                           last_batch_time>>
    /\ chanOpen' = FALSE
    /\ connOpen' = IF lastCycle'.raised THEN (connOpen /\ ~chanOpen) ELSE FALSE
    /\ shutdownRec' = [calls |-> shutdownRec.calls + 1,
                       chanBefore |-> chanOpen,
                       heldBefore |-> Len(message_batch),
                       steps |-> ShutdownSteps(message_batch # <<>>, lastCycle'.raised,
                                               chanOpen, connOpen, dbOpen),
                       raised |-> lastCycle'.raised]
    /\ lastCb' = NoCb
    /\ UNCHANGED <<loopPc, should_stop, now, prefetch_count, setupResult, nextTag,
                   offered>>

(***************************************************************************)
(* Environment, while the loop waits in process_data_events (the bounded   *)
(* wait where the loop blocks): time passes; the broker connection is      *)
(* lost (process_data_events then raises); the broker closes the channel   *)
(* alone (process_data_events keeps returning, the next call on the        *)
(* channel raises).  A loss in the middle of a handler is that handler's   *)
(* budget.                                                                 *)
(***************************************************************************)
Tick ==
    /\ UNCHANGED <<pvars, bvars, xvars>>
    /\ pc = "consuming"
    /\ loopPc = "events"
    /\ now < MaxTime
    /\ now' = now + 1
    /\ lastCb' = NoCb
    /\ lastCycle' = NoCycle
    /\ UNCHANGED <<pc, loopPc, should_stop, message_batch, last_batch_time, chanOpen,
                   connOpen, prefetch_count, dbOpen, setupResult, shutdownRec, exitStatus, store, ready,
                   unacked, nextTag, offered, ackLog, nackLog>>

ConnectionLost ==
    /\ UNCHANGED <<pvars, bvars, xvars>>
    /\ pc = "consuming"
    /\ loopPc = "events"
    /\ connOpen
    /\ chanOpen' = FALSE
    /\ connOpen' = FALSE
    /\ ready' = ReadyAfter(ready, unacked, <<>>, <<>>, FALSE, TRUE)
    /\ unacked' = {}
    /\ UNCHANGED <<pc, loopPc, should_stop, message_batch, last_batch_time, now,
                   prefetch_count, dbOpen, setupResult, shutdownRec, exitStatus, store,
                   nextTag, offered, ackLog, nackLog, lastCb, lastCycle>>

\* The broker closes the channel alone (a channel-level error such as its
\* delivery acknowledgement timeout): the connection stays open, the
\* unacknowledged deliveries of the channel go back to the queue, and every
\* later basic_ack / basic_nack on the channel raises.
ChannelClosedByBroker ==
    /\ UNCHANGED <<pvars, bvars, xvars>>
    /\ pc = "consuming"
    /\ loopPc = "events"
    /\ chanOpen
    /\ chanOpen' = FALSE
    /\ ready' = ReadyAfter(ready, unacked, <<>>, <<>>, FALSE, TRUE)
    /\ unacked' = {}
    /\ UNCHANGED <<pc, loopPc, should_stop, message_batch, last_batch_time, now,
                   connOpen, prefetch_count, dbOpen, setupResult, shutdownRec,
                   exitStatus, store, nextTag, offered, ackLog, nackLog, lastCb,
                   lastCycle>>

(***************************************************************************)
(* The publisher: LitterboxSimulator.process_data.                         *)
(*                                                                         *)
(* The caller (generate_initial_week / generate_next_week) hands over a    *)
(* batch of records with distinct ids.                                     *)
(***************************************************************************)
ProcessDataCalled(n) ==
    /\ pubPc = "idle"
    /\ pubData' = [i \in 1..n |-> i]
    /\ pubPc' = "start"
    /\ UNCHANGED <<pubIdx, successful_publishes, failed_publishes, pubConn, exchange,
                   publishCalls, files, saveCalls, fileFailed, connectResult, routed>>
    /\ UNCHANGED <<cvars, bvars, xvars>>

(***************************************************************************)
(* save_data_to_file(data): open and json.dump; either may raise.          *)
(***************************************************************************)
save_data_to_file(data, fileOk) ==
    /\ saveCalls' = Append(saveCalls, data)
    /\ files' = IF fileOk THEN Append(files, data) ELSE files
    /\ fileFailed' = (fileFailed \/ ~fileOk)

(***************************************************************************)
(* "if successful_publishes > 0": the backup file is written after the     *)
(* loop.                                                                   *)
(***************************************************************************)
BackupWanted(successful) == successful > 0

(***************************************************************************)
(* The except branches of process_data call save_data_to_file once.        *)
(***************************************************************************)
FallbackOnlyOnOtherErrors(result) == result = "ChannelError"   \* mutant
FallbackWanted(result) == result \in {"AMQPConnectionError", "ChannelError"}

(***************************************************************************)
(* Entering "with get_rabbitmq_connection() as channel": BlockingConnection*)
(* raises AMQPConnectionError, or connection.channel() raises (the         *)
(* connection is then closed by the context manager's finally), or the     *)
(* body runs.                                                              *)
(***************************************************************************)
ProcessDataConnect(result, fileOk) ==
    /\ pubPc = "start"
    /\ connectResult' = result
    /\ IF result = "ok"
       THEN /\ pubConn' = "open"
            /\ pubPc' = "publishing"
            /\ fileOk
            /\ UNCHANGED <<files, saveCalls, fileFailed>>
       ELSE /\ pubConn' = IF result = "ChannelError" THEN "closed" ELSE "none"
            /\ IF FallbackWanted(result)
               THEN /\ save_data_to_file(pubData, fileOk)
                    /\ pubPc' = IF fileOk THEN "returned" ELSE "raised"
               ELSE /\ fileOk
                    /\ pubPc' = "returned"
                    /\ UNCHANGED <<files, saveCalls, fileFailed>>
    /\ UNCHANGED <<pubData, pubIdx, successful_publishes, failed_publishes, exchange,
                   publishCalls, routed>>
    /\ UNCHANGED <<cvars, bvars, xvars>>

(***************************************************************************)
(* One iteration of the for loop: publish_to_rabbitmq(channel, record)     *)
(* succeeds, or raises and the loop continues.  publish_to_rabbitmq        *)
(* declares the exchange with EXCHANGE_TYPE and then calls basic_publish   *)
(* with an empty routing key and without the mandatory flag: the broker    *)
(* accepts the message and routes it to the queues its bindings select,    *)
(* and a message no binding selects is dropped silently.  When the         *)
(* exchange exists with another type the declaration raises (and closes    *)
(* the channel), so the call cannot succeed.                               *)
(***************************************************************************)
ProcessDataPublish(ok) ==
    LET declared == DeclareAccepted(exchangeType, EXCHANGE_TYPE)
        rec == pubData[pubIdx]
    IN  /\ pubPc = "publishing"
        /\ pubIdx <= Len(pubData)
        /\ ok => declared
        /\ publishCalls' = publishCalls + 1
        /\ IF ok
           THEN /\ exchangeType' = EXCHANGE_TYPE
                /\ exchange' = Append(exchange, rec)
                /\ routed' = IF Routes(EXCHANGE_TYPE, PublishRoutingKey, queueBound,
                                       ROUTING_KEY)
                             THEN Append(routed, rec)
                             ELSE routed
                /\ successful_publishes' = successful_publishes + 1
                /\ failed_publishes' = failed_publishes
           ELSE /\ UNCHANGED <<exchangeType, exchange, routed>>
                /\ successful_publishes' = successful_publishes
                /\ failed_publishes' = failed_publishes + 1
        /\ pubIdx' = pubIdx + 1
        /\ UNCHANGED <<pubPc, pubData, pubConn, files, saveCalls, fileFailed,
                       connectResult, queueBound>>
        /\ UNCHANGED <<cvars, xvars>>

(***************************************************************************)
(* After the loop: the with block closes the connection, the summary is    *)
(* logged and the backup is written.  A failing backup write is caught by  *)
(* "except Exception", which calls save_data_to_file(data) once more.      *)
(***************************************************************************)
ProcessDataFinish(fileOk1, fileOk2) ==
    /\ pubPc = "publishing"
    /\ pubIdx > Len(pubData)
    /\ pubConn' = "closed"
    /\ IF BackupWanted(successful_publishes)
       THEN IF fileOk1
            THEN /\ fileOk2
                 /\ save_data_to_file(pubData, TRUE)
                 /\ pubPc' = "returned"
            ELSE /\ saveCalls' = saveCalls \o <<pubData, pubData>>
                 /\ files' = IF fileOk2 THEN Append(files, pubData) ELSE files
                 /\ fileFailed' = TRUE
                 /\ pubPc' = IF fileOk2 THEN "returned" ELSE "raised"
       ELSE /\ fileOk1 /\ fileOk2
            /\ pubPc' = "returned"
            /\ UNCHANGED <<files, saveCalls, fileFailed>>
    /\ UNCHANGED <<pubData, pubIdx, successful_publishes, failed_publishes, exchange,
                   publishCalls, connectResult, routed>>
    /\ UNCHANGED <<cvars, bvars, xvars>>

PubNext ==
    \/ \E n \in 0..MaxPubRecords : ProcessDataCalled(n)
    \/ \E result \in {"ok", "AMQPConnectionError", "ChannelError"}, fileOk \in BOOLEAN :
          ProcessDataConnect(result, fileOk)
    \/ \E ok \in BOOLEAN : ProcessDataPublish(ok)
    \/ \E fileOk1 \in BOOLEAN, fileOk2 \in BOOLEAN : ProcessDataFinish(fileOk1, fileOk2)

PubSpec == Init /\ [][PubNext]_vars

Next ==
    \/ \E dbOk \in BOOLEAN, mqOk \in BOOLEAN : RunSetup(dbOk, mqOk)
    \/ store_batch_to_db
    \/ LoopTest
    \/ EventsDone
    \/ LoopCheck
    \/ signal_handler
    \/ shutdown
    \/ Tick
    \/ ConnectionLost
    \/ ChannelClosedByBroker


Spec == Init /\ [][Next]_vars

(***************************************************************************)
(* The consumer while its run loop keeps iterating: the while test, the    *)
(* return of process_data_events and the timeout check are taken when they *)
(* are due, shutdown runs once run reaches its finally, and time passes    *)
(* while the loop waits in process_data_events (time_limit=1) and sleeps.  *)
(* The run starts on a fresh broker and an empty table.                    *)
(***************************************************************************)
\* The steps of run's control flow; at most one of them is enabled at a time.
LoopStep == LoopTest \/ EventsDone \/ LoopCheck \/ shutdown

LiveInit == Init /\ store = {} /\ exchangeType = "none"

LiveSpec ==
    /\ LiveInit
    /\ [][Next]_vars
    /\ WF_vars(LoopStep)
    /\ SF_vars(Tick)
(***************************************************************************)
(* Properties of the consumer (checked under Spec).                        *)
(***************************************************************************)
AckedTags == [i \in 1..Len(ackLog) |-> ackLog[i][1]]
NackedTags == [i \in 1..Len(nackLog) |-> nackLog[i][1]]
NoRepeat(s) == \A i, j \in 1..Len(s) : s[i] = s[j] => i = j
Released(t) == t \in SeqSet(AckedTags) \cup SeqSet(NackedTags)
CycleRan == lastCycle.from # "none"
CycleIds == [i \in 1..Len(lastCycle.batch) |-> lastCycle.batch[i][1].id]
CycleTags == Tags(lastCycle.batch)
CycleBodiesValid == \A i \in 1..Len(lastCycle.batch) : RowIsValid(lastCycle.batch[i][1])
LastNacks(n) == SubSeq(nackLog, Len(nackLog) - n + 1, Len(nackLog))
LastAcks(n) == SubSeq(ackLog, Len(ackLog) - n + 1, Len(ackLog))

\* C1: every handle that has been acked belongs to a record whose id is in the
\* store: basic_ack is called only after the batch write holding the record
\* has committed.
C1_AckOnlyAfterCommit ==
    \A i \in 1..Len(ackLog) : ackLog[i][2] \in store

C1_Witness ==
    /\ CycleRan
    /\ lastCycle.committed
    /\ Len(lastCycle.acks) = BATCH_SIZE
    /\ Len(ackLog) >= BATCH_SIZE

C4_MissingEnterTimeRejected ==
    (lastCb.tag # 0 /\ lastCb.body = NoEnterBody) =>
        /\ ~lastCb.parsed
        /\ ~lastCb.appended
        /\ lastCb.nacked => ~lastCb.requeue
        /\ (~lastCb.cycle => Len(message_batch) = lastCb.heldBefore)

\* C5: when the first record of the batch whose id is already in the store
\* is record k (records 1..k-1 were staged), the write commits nothing (the
\* store is as before the cycle), the error is the "already exists"
\* ValueError carrying the id of record k, and, the channel being open, all N
\* handles are nacked with requeue, in order, and none is acked.
FirstDuplicateAt(k) ==
    /\ k \in 1..Len(lastCycle.batch)
    /\ CycleIds[k] \in lastCycle.storeBefore
    /\ \A j \in 1..(k - 1) : /\ CycleIds[j] \notin lastCycle.storeBefore
                             /\ RowIsValid(lastCycle.batch[j][1])

C5_DuplicateRejectsWholeBatch ==
    \A k \in 1..Len(lastCycle.batch) :
        (CycleRan /\ ~lastCycle.fault /\ FirstDuplicateAt(k)) =>
            /\ store = lastCycle.storeBefore
            /\ lastCycle.commits = 0
            /\ lastCycle.err = Error("ValueError", CycleIds[k])
            /\ lastCycle.acks = <<>>
            /\ lastCycle.chanHeld =>
                  /\ lastCycle.nacks = CycleTags
                  /\ Len(nackLog) >= Len(CycleTags)
                  /\ LastNacks(Len(CycleTags)) = NackEntries(CycleTags, TRUE)

C5_Witness ==
    /\ CycleRan
    /\ ~lastCycle.fault
    /\ Len(lastCycle.batch) = BATCH_SIZE
    /\ FirstDuplicateAt(BATCH_SIZE)
    /\ lastCycle.chanHeld
    /\ Len(lastCycle.nacks) = BATCH_SIZE

\* C6: a write cycle over N complete records whose ids are all absent from
\* the store, with the store available and the channel open, commits exactly
\* once, adds exactly those N ids, and acks the N delivery tags one by one in
\* the order of the batch; nothing is nacked.
C6_UniqueBatchCommitsOnceAcksInOrder ==
    (/\ CycleRan
     /\ ~lastCycle.fault
     /\ lastCycle.chanHeld
     /\ CycleBodiesValid
     /\ SeqSet(CycleIds) \cap lastCycle.storeBefore = {}) =>
        /\ lastCycle.commits = 1
        /\ store = lastCycle.storeBefore \cup SeqSet(CycleIds)
        /\ lastCycle.acks = CycleTags
        /\ lastCycle.nacks = <<>>
        /\ Len(ackLog) >= Len(CycleTags)
        /\ LastAcks(Len(CycleTags)) = AckEntries(lastCycle.batch, CycleTags)
        /\ NoRepeat(AckedTags)

C6_Witness ==
    /\ CycleRan
    /\ lastCycle.commits = 1
    /\ Len(lastCycle.batch) = BATCH_SIZE
    /\ lastCycle.acks = CycleTags
    /\ lastCycle.from = "callback"
    /\ Len(ackLog) >= BATCH_SIZE

\* C7: when the batch write fails with a store or transactional error, the
\* store is as before the cycle, nothing is acked, every handle of the batch
\* is nacked with requeue (the channel being open), the accumulator is empty
\* after the cycle and the batch's messages are back in the broker's queue.
C7_FailedWriteRequeuesBatch ==
    (CycleRan /\ lastCycle.err.kind \in {"OperationalError", "IntegrityError"}) =>
        /\ store = lastCycle.storeBefore
        /\ lastCycle.commits = 0
        /\ lastCycle.acks = <<>>
        /\ message_batch = <<>>
        /\ unacked = {}
        /\ lastCycle.chanHeld =>
              /\ lastCycle.nacks = CycleTags
              /\ Len(nackLog) >= Len(CycleTags)
              /\ LastNacks(Len(CycleTags)) = NackEntries(CycleTags, TRUE)
              /\ \A i \in 1..Len(lastCycle.batch) :
                    \E b \in ready : /\ _parse_message(b).ok
                                     /\ _parse_message(b).data = lastCycle.batch[i][1]

C7_Witness ==
    /\ CycleRan
    /\ lastCycle.err.kind = "OperationalError"
    /\ lastCycle.fault
    /\ lastCycle.chanHeld
    /\ Len(lastCycle.batch) = BATCH_SIZE
    /\ Len(lastCycle.nacks) = BATCH_SIZE
    /\ pc = "consuming"

(***************************************************************************)
(* Properties of the publisher (checked under PubSpec).                    *)
(***************************************************************************)
ProcessDataEnded == pubPc \in {"returned", "raised"}
InSomeFile(rec) == \E f \in 1..Len(files) : rec \in SeqSet(files[f])
ConnectFailed == connectResult \in {"AMQPConnectionError", "ChannelError"}

\* C8: when process_data returns without raising, every record of the batch
\* was published to the broker or is in a fallback file that was written.
C8_NoRecordDropped ==
    pubPc = "returned" =>
        \A i \in 1..Len(pubData) :
            pubData[i] \in SeqSet(exchange) \/ InSomeFile(pubData[i])

\* C9: when a publish attempt of the batch failed (and no file write failed),
\* process_data still returns without raising, has attempted every record of
\* the batch, and has written a file holding the entire batch.
C9_PublishFailureFallsBackWholeBatch ==
    (ProcessDataEnded /\ failed_publishes > 0 /\ ~fileFailed) =>
        /\ pubPc = "returned"
        /\ publishCalls = Len(pubData)
        /\ \E f \in 1..Len(files) : files[f] = pubData

\* C10: when the broker connection cannot be established, process_data makes
\* no publish call and calls save_data_to_file exactly once, with exactly the
\* batch it was given; it returns without raising with that one file written
\* (it raises only when that file write itself fails).
C10_ConnectFailureFallsBackOnce ==
    (ProcessDataEnded /\ ConnectFailed) =>
        /\ publishCalls = 0
        /\ exchange = <<>>
        /\ saveCalls = <<pubData>>
        /\ IF fileFailed
           THEN pubPc = "raised" /\ files = <<>>
           ELSE pubPc = "returned" /\ files = <<pubData>>

C10_Witness ==
    /\ pubPc = "returned"
    /\ connectResult = "AMQPConnectionError"
    /\ Len(pubData) = MaxPubRecords
    /\ files = <<pubData>>
    /\ publishCalls = 0

(***************************************************************************)
(* Properties of the broker topology.                                      *)
(***************************************************************************)
\* C11: the exchange is declared with the same parameters by the publisher
\* and the consumer, so the consumer's exchange_declare in setup_rabbitmq is
\* never rejected by the broker for a type mismatch, whoever declared the
\* exchange first (checked under Spec).
C11_DeclarationNeverRejected ==
    setupResult # "exchange_mismatch"

\* C12: every record the broker accepted from the publisher's basic_publish
\* has been routed into litterbox_usage_queue (checked under PubSpec).
C12_PublishedIsRouted ==
    \A i \in 1..Len(exchange) : exchange[i] \in SeqSet(routed)

(***************************************************************************)
(* Properties of the accumulator (checked under Spec).                     *)
(***************************************************************************)
IsPrefix(p, q) == Len(p) <= Len(q) /\ \A i \in 1..Len(p) : p[i] = q[i]
ReadyAtOffer == \/ lastCb.heldBefore + 1 >= BATCH_SIZE
                \/ lastCb.elapsed >= BATCH_TIMEOUT

\* C13: while less than BATCH_TIMEOUT has elapsed, _should_process_batch is
\* true exactly when BATCH_SIZE pairs are held: a callback that appends
\* before the timeout has elapsed runs the write cycle if and only if its
\* append brings the held count to BATCH_SIZE; and with an empty accumulator
\* _should_process_batch is false whatever the elapsed time.
C13_SizeTrigger ==
    /\ (lastCb.appended /\ lastCb.elapsed < BATCH_TIMEOUT)
          => (lastCb.cycle <=> lastCb.heldBefore + 1 >= BATCH_SIZE)
    /\ (now - last_batch_time < BATCH_TIMEOUT)
          => (_should_process_batch(message_batch, now, last_batch_time)
                <=> Len(message_batch) >= BATCH_SIZE)
    /\ \A t \in 0..MaxTime, l \in 0..MaxTime : ~_should_process_batch(<<>>, t, l)

C13_Witness ==
    /\ lastCb.appended
    /\ lastCb.elapsed < BATCH_TIMEOUT
    /\ lastCb.heldBefore + 1 = BATCH_SIZE
    /\ lastCb.cycle

\* C14 (its first half): a record offered to an empty accumulator, with one
\* held pair still below BATCH_SIZE, does not make the batch ready at the
\* moment of the offer, when nothing has elapsed since the record was
\* offered, however long the accumulator was idle before.  (The second
\* half, ready once BATCH_TIMEOUT has elapsed since the offer, follows from
\* last_batch_time never being later than the offer.)
C14_TimeoutCountsFromFirstOffer ==
    (lastCb.appended /\ lastCb.heldBefore = 0 /\ 1 < BATCH_SIZE) => ~lastCb.cycle

\* C15: a write cycle takes all held pairs in the order they were offered
\* and, whether the write committed, failed or the release calls raised,
\* leaves message_batch empty and last_batch_time equal to the current time,
\* so that _should_process_batch is false right after it.
C15_DrainEmptiesAndResets ==
    CycleRan =>
        /\ message_batch = <<>>
        /\ last_batch_time = now
        /\ ~_should_process_batch(message_batch, now, last_batch_time)
        /\ \A i, j \in 1..Len(CycleTags) : i < j => CycleTags[i] < CycleTags[j]
        /\ lastCycle.from = "callback" => Len(lastCycle.batch) = lastCb.heldBefore + 1
        /\ lastCycle.from = "shutdown" => Len(lastCycle.batch) = shutdownRec.heldBefore
        /\ lastCycle.committed => \A i \in 1..Len(CycleIds) : CycleIds[i] \in store
        /\ IsPrefix(lastCycle.acks, CycleTags)
        /\ IsPrefix(lastCycle.nacks, CycleTags)

C15_Witness ==
    /\ CycleRan
    /\ ~lastCycle.committed
    /\ Len(lastCycle.batch) >= 2
    /\ message_batch = <<>>
    /\ now > 0
    /\ last_batch_time = now

\* C16: a callback that appends a decoded message checks readiness itself and
\* runs the write cycle at once when the batch is ready; whenever a callback
\* has returned, message_batch holds fewer than BATCH_SIZE pairs.
C16_CallbackLeavesFewerThanBatchSize ==
    /\ Len(message_batch) < BATCH_SIZE
    /\ (lastCb.appended /\ ReadyAtOffer)
          => (lastCb.cycle /\ lastCycle.from = "callback")

C16_Witness ==
    /\ lastCb.appended
    /\ lastCb.cycle
    /\ lastCycle.from = "callback"
    /\ lastCycle.committed
    /\ message_batch = <<>>

(***************************************************************************)
(* Properties of the consumer's life cycle (checked under Spec).           *)
(***************************************************************************)
StepIndex(name) ==
    IF \E i \in 1..Len(shutdownRec.steps) : shutdownRec.steps[i] = name
    THEN CHOOSE i \in 1..Len(shutdownRec.steps) : shutdownRec.steps[i] = name
    ELSE 0
StepBefore(a, b) == (StepIndex(a) > 0 /\ StepIndex(b) > 0) => StepIndex(a) < StepIndex(b)
SetupFailed == setupResult \in {"db_failed", "mq_connect_failed", "exchange_mismatch"}

\* C17: when shutdown finds message_batch non-empty it runs one write cycle
\* on all held pairs, whatever their number and age, before it stops
\* consuming and closes the connection (with the channel still open during
\* that cycle every tag is acked or nacked), and it closes the broker
\* connection before it disposes the store engine.
C17_FinalCycleBeforeClose ==
    shutdownRec.calls = 1 =>
        /\ shutdownRec.heldBefore > 0 =>
               /\ StepIndex("process_batch") = 1
               /\ lastCycle.from = "shutdown"
               /\ Len(lastCycle.batch) = shutdownRec.heldBefore
               /\ ~shutdownRec.raised =>
                      \A i \in 1..Len(CycleTags) : Released(CycleTags[i])
        /\ shutdownRec.heldBefore = 0 => StepIndex("process_batch") = 0
        /\ StepBefore("process_batch", "stop_consuming")
        /\ StepBefore("process_batch", "connection.close")
        /\ StepBefore("stop_consuming", "connection.close")
        /\ StepBefore("connection.close", "disconnect")

C17_Witness ==
    /\ shutdownRec.calls = 1
    /\ shutdownRec.heldBefore = 1
    /\ shutdownRec.heldBefore < BATCH_SIZE
    /\ now < BATCH_TIMEOUT
    /\ lastCycle.committed
    /\ shutdownRec.steps = <<"process_batch", "stop_consuming", "connection.close",
                             "disconnect">>

\* C18: a second invocation of shutdown, or an invocation that finds the
\* broker channel already closed or never opened, raises nothing and leaves
\* the consumer stopped: channel, connection and store engine closed,
\* message_batch empty.
C18_ShutdownIdempotent ==
    (shutdownRec.calls >= 2 \/ (shutdownRec.calls = 1 /\ ~shutdownRec.chanBefore)) =>
        /\ ~shutdownRec.raised
        /\ pc = "stopped"
        /\ ~chanOpen /\ ~connOpen /\ ~dbOpen
        /\ message_batch = <<>>

\* C19: the signal handler changes nothing but should_stop; the loop leaves
\* without an error only at its while test and only with should_stop set,
\* and with should_stop set the while test does leave; every write cycle,
\* whenever the signal arrives, ends with the batch committed or the store
\* untouched, the accumulator empty and (the channel held) every tag acked
\* or nacked; and the step after the loop is left is shutdown.
C19_CooperativeCancellation ==
    [][ /\ should_stop' # should_stop =>
              /\ should_stop'
              /\ UNCHANGED <<pc, loopPc, message_batch, last_batch_time, now, chanOpen,
                             connOpen, dbOpen, exitStatus, store, ready, unacked,
                             nextTag, ackLog, nackLog, shutdownRec>>
        /\ (pc = "consuming" /\ pc' = "shutdown" /\ exitStatus' = exitStatus) =>
              (loopPc = "test" /\ should_stop)
        /\ (pc = "consuming" /\ loopPc = "test" /\ should_stop) => pc' = "shutdown"
        /\ (lastCycle' # lastCycle /\ lastCycle'.from # "none") =>
              /\ message_batch' = <<>>
              /\ lastCycle'.committed \/ store' = store
              /\ lastCycle'.chanHeld =>
                    \A i \in 1..Len(lastCycle'.batch) :
                        lastCycle'.batch[i][2] \in
                            SeqSet(lastCycle'.acks) \cup SeqSet(lastCycle'.nacks)
        /\ pc = "shutdown" => shutdownRec'.calls = shutdownRec.calls + 1
      ]_vars

C19_Witness ==
    /\ should_stop
    /\ pc = "stopped"
    /\ exitStatus = 0
    /\ shutdownRec.calls = 1
    /\ Len(ackLog) > 0

\* C20: when setup_database or setup_rabbitmq fails, run never enters the
\* consuming loop (no delivery is ever taken), the exit status is 1, and
\* the shutdown of run's finally closes what was acquired (the connection
\* whose exchange_declare was rejected, the store engine) without raising.
C20_StartupFailureIsFatal ==
    SetupFailed =>
        /\ pc \in {"shutdown", "stopped"}
        /\ exitStatus = 1
        /\ nextTag = 1 /\ offered = {} /\ ackLog = <<>> /\ nackLog = <<>>
        /\ shutdownRec.calls >= 1 =>
               /\ ~shutdownRec.raised
               /\ ~chanOpen /\ ~connOpen /\ ~dbOpen
        /\ (shutdownRec.calls = 1 /\ setupResult = "exchange_mismatch") =>
               StepIndex("connection.close") > 0

C20_Witness ==
    /\ setupResult = "exchange_mismatch"
    /\ pc = "stopped"
    /\ exitStatus = 1
    /\ shutdownRec.steps = <<"connection.close", "disconnect">>

(***************************************************************************)
(* Properties of the consumer under broker failures (checked under Spec).  *)
(***************************************************************************)
Outstanding(t) == \E u \in unacked : u[1] = t

\* C21: a write cycle of the consuming loop during which the broker
\* connection is lost fails: nothing of the batch is committed, no handle of
\* the batch stays acked or outstanding (all go back to the queue), and the
\* consumer, without reconnecting, is on its way to shutdown.
C21_LossFailsInFlightCycle ==
    (CycleRan /\ lastCycle.from \in {"callback", "loop"} /\ lastCycle.raised) =>
        /\ ~lastCycle.committed
        /\ store = lastCycle.storeBefore
        /\ \A i \in 1..Len(CycleTags) :
              ~Outstanding(CycleTags[i]) /\ CycleTags[i] \notin SeqSet(AckedTags)
        /\ pc = "shutdown"
        /\ ~chanOpen

\* C25: message_batch changes only inside one delivery callback dispatched
\* by process_data_events, inside the loop's timeout check, or inside
\* shutdown; a write cycle works on exactly the pairs held when it starts
\* (plus, in a callback, the pair that callback appended) and no delivery is
\* taken during it; and a step that sets should_stop changes nothing else
\* of the consumer.
C25_SequentialAccess ==
    [][ /\ message_batch' # message_batch =>
              \/ /\ pc = "consuming" /\ loopPc = "events"
                 /\ nextTag' = nextTag + 1
                 /\ lastCb'.tag = nextTag /\ lastCb'.appended
                 /\ \/ /\ message_batch' # <<>>
                       /\ SubSeq(message_batch', 1, Len(message_batch)) = message_batch
                       /\ Len(message_batch') = Len(message_batch) + 1
                    \/ /\ message_batch' = <<>>
                       /\ lastCycle'.from = "callback"
                       /\ SubSeq(lastCycle'.batch, 1, Len(message_batch)) = message_batch
                       /\ Len(lastCycle'.batch) = Len(message_batch) + 1
              \/ /\ pc = "consuming" /\ loopPc = "check"
                 /\ lastCycle'.from = "loop"
                 /\ lastCycle'.batch = message_batch
                 /\ message_batch' = <<>> /\ nextTag' = nextTag
              \/ /\ pc \in {"shutdown", "stopped", "aborted"}
                 /\ lastCycle'.from = "shutdown"
                 /\ lastCycle'.batch = message_batch
                 /\ message_batch' = <<>> /\ nextTag' = nextTag
        /\ should_stop' # should_stop =>
              UNCHANGED <<message_batch, last_batch_time, store, unacked, ready, nextTag,
                          ackLog, nackLog, lastCb, lastCycle, pc, loopPc>>
      ]_vars

C25_Witness ==
    /\ should_stop
    /\ lastCb.cycle
    /\ lastCb.heldBefore >= 1
    /\ lastCycle.from = "callback"
    /\ message_batch = <<>>

\* C26 (the consumer's half): when run has ended, with or without an error,
\* and its finally has called shutdown, the consumer's broker connection is
\* closed.
C26_ConsumerConnectionReleased ==
    (pc \in {"stopped", "aborted"} /\ shutdownRec.calls = 1) => ~connOpen

\* The publisher's half of C26: when process_data has ended, the connection
\* that get_rabbitmq_connection opened is closed.
PublisherConnectionReleased ==
    ProcessDataEnded => pubConn # "open"

\* C29: whenever a write cycle has committed its batch, every handle of that
\* batch has been acked: none is nacked, none is left unacknowledged.
C29_CommitAndAckAgree ==
    (CycleRan /\ lastCycle.committed) =>
        /\ lastCycle.acks = CycleTags
        /\ lastCycle.nacks = <<>>

(***************************************************************************)
(* Progress of the accumulator (checked under LiveSpec).  The clock of the *)
(* model stops at MaxTime, so the properties speak about the batches whose *)
(* timeout falls within it.                                                *)
(***************************************************************************)
WithinHorizon == last_batch_time + BATCH_TIMEOUT <= MaxTime
AllOfferedReleased == \A t \in offered : Released(t)

C22_NoRecordLostEndToEnd ==
    (/\ pubPc = "returned"
     /\ connectResult = "ok"
     /\ failed_publishes = 0
     /\ ~fileFailed)
        => /\ Len(routed) = Len(pubData)
           /\ \A i \in 1..Len(pubData) :
                 Cardinality({j \in 1..Len(routed) : routed[j] = pubData[i]}) = 1

(***************************************************************************)
(* The round trip of one record: publish_to_rabbitmq builds the body from  *)
(* the record, _parse_message rebuilds the record from the body.           *)
(***************************************************************************)
CodecInit ==
    /\ PipelineAtRest
    /\ SimulatorOff
    /\ GeneratorOff
    /\ InstancesOff
    /\ codecPc = "made"
    /\ usage_record \in UsageRecords
    /\ message_body = NoRecord
    /\ message_data = NoRecord

PublishRecord ==
    /\ codecPc = "made"
    /\ message_body' = json_dumps(prepare_data_for_serialization(usage_record))
    /\ codecPc' = "published"
    /\ UNCHANGED <<usage_record, message_data>>
    /\ UNCHANGED <<pipelineVars, simVars, genVars, storeVars>>

ParseRecord ==
    /\ codecPc = "published"
    /\ message_data' = _parse_message_fields(message_body)
    /\ codecPc' = "parsed"
    /\ UNCHANGED <<usage_record, message_body>>
    /\ UNCHANGED <<pipelineVars, simVars, genVars, storeVars>>

CodecNext == PublishRecord \/ ParseRecord

CodecSpec == CodecInit /\ [][CodecNext]_vars

\* C23: for every record r the publisher produces, the consumer's
\* _parse_message applied to the body publish_to_rabbitmq builds from r
\* returns a record equal to r: the same id, device id, enter, exit and
\* creation datetimes and weights (checked under CodecSpec).
C23_RoundTrip ==
    codecPc = "parsed" => message_data = usage_record

C23_Witness ==
    /\ codecPc = "parsed"
    /\ usage_record.created_at.b # 0
    /\ message_body.created_at.type = "str"
    /\ message_body.id.type = "str"
    /\ message_data.created_at.type = "datetime"
    /\ message_data.id.type = "UUID"

(***************************************************************************)
(* The simulator's week cursor.  Days are numbered; the simulator is       *)
(* constructed on day WeekDays, so that __init__ sets current_week_start   *)
(* = today - 7 days to day 0.                                              *)
(***************************************************************************)
WeekDays == 7
MaxDay == 22

SimInit ==
    /\ PipelineAtRest
    /\ CodecIdle
    /\ GeneratorOff
    /\ InstancesOff
    /\ simPc = "constructed"
    /\ today = WeekDays
    /\ current_week_start = today - WeekDays
    /\ genCalls = <<>>
    /\ processCalls = 0
    /\ lastCheck = NoCheck

(***************************************************************************)
(* generate_week_data(week_start) followed by process_data(data), as       *)
(* generate_initial_week and generate_next_week call them.                 *)
(***************************************************************************)
GenerateAndProcess(start) ==
    /\ genCalls' = Append(genCalls, start)
    /\ processCalls' = processCalls + 1

(***************************************************************************)
(* start_simulator: generate_initial_week for the current week, then the   *)
(* daily schedule of _check_and_generate_next_batch.                       *)
(***************************************************************************)
start_simulator ==
    /\ simPc = "constructed"
    /\ simPc' = "started"
    /\ GenerateAndProcess(current_week_start)
    /\ lastCheck' = NoCheck
    /\ UNCHANGED <<current_week_start, today>>
    /\ UNCHANGED <<pipelineVars, codecVars, genVars, storeVars>>

(***************************************************************************)
(* generate_next_week: the cursor moves one week on, the data of the new   *)
(* week is generated and processed.                                        *)
(***************************************************************************)
generate_next_week ==
    /\ current_week_start' = current_week_start + WeekDays
    /\ GenerateAndProcess(current_week_start')

GenerateNextWeekCalled ==
    /\ simPc # "off"
    /\ current_week_start + WeekDays <= MaxDay
    /\ generate_next_week
    /\ lastCheck' = NoCheck
    /\ UNCHANGED <<simPc, today>>
    /\ UNCHANGED <<pipelineVars, codecVars, genVars, storeVars>>

(***************************************************************************)
(* _check_and_generate_next_batch: today's UTC midnight against            *)
(* next_batch_date = current_week_start + 7 days.                          *)
(***************************************************************************)
NextBatchDateOneDayEarly(start) == start + WeekDays - 1   \* mutant
NextBatchDate(start) == start + WeekDays
_check_and_generate_next_batch ==
    /\ simPc # "off"
    /\ lastCheck' = [ran |-> TRUE, today |-> today,
                     startBefore |-> current_week_start,
                     genBefore |-> Len(genCalls),
                     processBefore |-> processCalls]
    /\ IF today >= NextBatchDate(current_week_start)
       THEN generate_next_week
       ELSE UNCHANGED <<current_week_start, genCalls, processCalls>>
    /\ UNCHANGED <<simPc, today>>
    /\ UNCHANGED <<pipelineVars, codecVars, genVars, storeVars>>

(***************************************************************************)
(* A UTC midnight passes.                                                  *)
(***************************************************************************)
Midnight ==
    /\ simPc # "off"
    /\ today < MaxDay
    /\ today' = today + 1
    /\ lastCheck' = NoCheck
    /\ UNCHANGED <<simPc, current_week_start, genCalls, processCalls>>
    /\ UNCHANGED <<pipelineVars, codecVars, genVars, storeVars>>

SimNext ==
    \/ start_simulator
    \/ GenerateNextWeekCalled
    \/ _check_and_generate_next_batch
    \/ Midnight

SimSpec == SimInit /\ [][SimNext]_vars

\* C27: the week cursor advances only by generate_next_week and only in
\* steps of exactly 7 days, each time generating the data of the new start
\* and handing it to process_data exactly once; and
\* _check_and_generate_next_batch calls generate_next_week once exactly when
\* today's UTC midnight is at or after current_week_start + 7 days, and
\* otherwise leaves current_week_start unchanged and generates nothing
\* (checked under SimSpec).
CursorStepIsOneWeek ==
    current_week_start' # current_week_start
        => /\ current_week_start' = current_week_start + 7
           /\ genCalls' = Append(genCalls, current_week_start')
           /\ processCalls' = processCalls + 1
CheckDidItsJob ==
    lastCheck.ran =>
        IF lastCheck.today >= lastCheck.startBefore + 7
        THEN /\ current_week_start = lastCheck.startBefore + 7
             /\ Len(genCalls) = lastCheck.genBefore + 1
             /\ genCalls[Len(genCalls)] = current_week_start
             /\ processCalls = lastCheck.processBefore + 1
        ELSE /\ current_week_start = lastCheck.startBefore
             /\ Len(genCalls) = lastCheck.genBefore
             /\ processCalls = lastCheck.processBefore
C27_WeekCursor ==
    [][CursorStepIsOneWeek /\ CheckDidItsJob']_vars

C27_Witness ==
    /\ lastCheck.ran
    /\ lastCheck.today = lastCheck.startBefore + 7
    /\ current_week_start = lastCheck.startBefore + 7
    /\ Len(genCalls) >= 2

(***************************************************************************)
(* LitterboxSimulator.generate_realistic_usage_times(base_date): for each  *)
(* of the daily uses a period is chosen by the first cumulative            *)
(* probability that random.random() does not exceed, then an hour of the   *)
(* period, a minute and a second; the times are returned sorted.  A draw   *)
(* is <<period_choice in hundredths, first or last hour of the period,     *)
(* minute, second>>, base_date is in seconds.                              *)
(***************************************************************************)
SecondsPerDay == 86400
SecondsPerHour == 3600
SecondsPerMinute == 60
time_periods == <<<<6, 10, 30>>, <<10, 16, 20>>, <<16, 20, 35>>, <<20, 24, 10>>,
                  <<0, 6, 5>>>>
RECURSIVE cumulative_prob(_)
cumulative_prob(i) == IF i = 0 THEN 0 ELSE cumulative_prob(i - 1) + time_periods[i][3]
PeriodChosen(period_choice) ==
    LET fit == {i \in 1..Len(time_periods) : period_choice <= cumulative_prob(i)}
    IN  IF fit = {} THEN 0 ELSE CHOOSE i \in fit : \A j \in fit : i <= j
UsageTime(base_date, draw) ==
    LET period == time_periods[PeriodChosen(draw[1])]
        hour == IF draw[2] = "first" THEN period[1] ELSE period[2] - 1
    IN  base_date + hour * SecondsPerHour + draw[3] * SecondsPerMinute + draw[4]
UsageDraws == {<<0, "first", 0, 0>>, <<99, "last", 59, 59>>}
DailyUses == 2..4
generate_realistic_usage_times(base_date, draws) ==
    LET fitting == SelectSeq(draws, LAMBDA d : PeriodChosen(d[1]) # 0)
        usage_times == [i \in 1..Len(fitting) |-> UsageTime(base_date, fitting[i])]
    IN  SortSeq(usage_times, <)

(***************************************************************************)
(* LitterboxSimulator.generate_week_data(week_start), one loop iteration   *)
(* per step: the outer loop draws the day's enter times, the inner loop    *)
(* appends one usage_record per enter time.                                *)
(***************************************************************************)
GenInit ==
    /\ PipelineAtRest
    /\ CodecIdle
    /\ SimulatorOff
    /\ InstancesOff
    /\ genPc = "day"
    /\ week_start = WeekDays
    /\ day_offset = 0
    /\ daily_usage_times = <<>>
    /\ use_idx = 1
    /\ usage_count = 0
    /\ appended_record = NoRecord

GenerateDay(draws) ==
    /\ genPc = "day"
    /\ day_offset < WeekDays
    /\ daily_usage_times' =
          generate_realistic_usage_times((week_start + day_offset) * SecondsPerDay,
                                         draws)
    /\ use_idx' = 1
    /\ genPc' = "use"
    /\ UNCHANGED <<week_start, day_offset, usage_count, appended_record>>
    /\ UNCHANGED <<pipelineVars, codecVars, simVars, storeVars>>

GenerateUse(raw, w, created_at) ==
    /\ genPc = "use"
    /\ use_idx <= Len(daily_usage_times)
    /\ appended_record' =
          UsageRecord(usage_count + 1,
                      DatetimeValue(daily_usage_times[use_idx], 0, "+00:00"),
                      generate_session_duration(raw), generate_weight_data(w),
                      created_at)
    /\ usage_count' = usage_count + 1
    /\ use_idx' = use_idx + 1
    /\ IF use_idx = Len(daily_usage_times)
       THEN /\ day_offset' = day_offset + 1
            /\ genPc' = IF day_offset + 1 < WeekDays THEN "day" ELSE "done"
       ELSE UNCHANGED <<day_offset, genPc>>
    /\ UNCHANGED <<week_start, daily_usage_times>>
    /\ UNCHANGED <<pipelineVars, codecVars, simVars, storeVars>>

GenNext ==
    \/ \E n \in DailyUses : \E draws \in [1..n -> UsageDraws] : GenerateDay(draws)
    \/ \E raw \in RawDurations, w \in WeightDraws, c \in CreationTimes :
          GenerateUse(raw, w, c)

GenSpec == GenInit /\ [][GenNext]_vars

\* C28: every record generate_week_data produces has exit_time strictly
\* later than enter_time, by a whole number of seconds between 30 and 300
\* inclusive, and carries the fixed edge device id; every day contributes 2
\* to 4 records and the finished week holds between 14 and 28 records over
\* exactly 7 days (checked under GenSpec).
SessionSeconds(r) == r.exit_time.a - r.enter_time.a
C28_WeekDataShape ==
    /\ appended_record # NoRecord
          => /\ SessionSeconds(appended_record) \in 30..300
             /\ appended_record.exit_time.a > appended_record.enter_time.a
             /\ appended_record.exit_time.b = appended_record.enter_time.b
             /\ appended_record.litterbox_edge_device_id = UuidValue(0)
    /\ genPc = "use" => Len(daily_usage_times) \in 2..4
    /\ usage_count \in (2 * day_offset)..(4 * day_offset + Len(daily_usage_times))
    /\ genPc = "done" => day_offset = 7 /\ usage_count \in 14..28

C28_Witness ==
    /\ genPc = "done"
    /\ usage_count = 28
    /\ SessionSeconds(appended_record) = 299

(***************************************************************************)
(* Two consumer instances writing to the same store.  Each runs            *)
(* PostgreSQLGateway.insert_litterbox_usage_data in a session of its own   *)
(* (one transaction, READ COMMITTED): per record a SELECT for the id, which*)
(* first flushes the row added before it as an INSERT, then session.add;   *)
(* session.commit flushes the last row and commits.  The statements of the *)
(* two transactions interleave freely.                                     *)
(***************************************************************************)
MaxBatchesPerInstance == 2
Other(i) == CHOOSE j \in Instances : j # i
Batches == {<<a>> : a \in Ids} \cup {<<a, b>> : a \in Ids, b \in Ids}

(***************************************************************************)
(* LitterboxUsageData.id is the primary key: an INSERT of an id that a     *)
(* committed row holds fails with IntegrityError, and an INSERT of an id   *)
(* that the other open transaction has inserted waits for that transaction *)
(* to end.                                                                 *)
(***************************************************************************)
PrimaryKeyNotEnforced(i, x) == "none"   \* mutant: id is not unique
PrimaryKeyConflict(i, x) ==
    IF x \in SeqSet(table) THEN "duplicate"
    ELSE IF x \in SeqSet(tx[Other(i)].written) THEN "wait"
    ELSE "none"

(***************************************************************************)
(* process_batch after insert_litterbox_usage_data raised: the session is  *)
(* rolled back and every handle of the batch is nacked with requeue=True.  *)
(***************************************************************************)
Raised(i, error) ==
    tx' = [tx EXCEPT ![i].pc = "raised", ![i].written = <<>>, ![i].pending = <<>>,
                     ![i].released = "nack_requeue", ![i].error = error]

BeginBatch(i, batch) ==
    /\ tx[i].pc \in {"idle", "committed", "raised"}
    /\ tx[i].runs < MaxBatchesPerInstance
    /\ tx' = [tx EXCEPT ![i] = [NoTx EXCEPT !.pc = "loop", !.batch = batch,
                                            !.runs = tx[i].runs + 1]]
    /\ UNCHANGED <<table, committed_batches>>
    /\ UNCHANGED <<pipelineVars, codecVars, simVars, genVars>>

(***************************************************************************)
(* The flush of the row added last: its INSERT.                            *)
(***************************************************************************)
FlushPending(i) ==
    LET x == Head(tx[i].pending)
        conflict == PrimaryKeyConflict(i, x)
    IN  /\ tx[i].pc \in {"loop", "commit"}
        /\ tx[i].pending # <<>>
        /\ conflict # "wait"
        /\ IF conflict = "duplicate"
           THEN Raised(i, "IntegrityError")
           ELSE tx' = [tx EXCEPT ![i].pending = <<>>,
                                 ![i].written = Append(tx[i].written, x)]
        /\ UNCHANGED <<table, committed_batches>>
        /\ UNCHANGED <<pipelineVars, codecVars, simVars, genVars>>

(***************************************************************************)
(* Both transactions wait for a row of the other: the store detects the    *)
(* deadlock and fails one of them.                                         *)
(***************************************************************************)
DeadlockDetected(i) ==
    /\ tx[i].pc \in {"loop", "commit"}
    /\ tx[Other(i)].pc \in {"loop", "commit"}
    /\ tx[i].pending # <<>>
    /\ tx[Other(i)].pending # <<>>
    /\ PrimaryKeyConflict(i, Head(tx[i].pending)) = "wait"
    /\ PrimaryKeyConflict(Other(i), Head(tx[Other(i)].pending)) = "wait"
    /\ Raised(i, "DeadlockDetected")
    /\ UNCHANGED <<table, committed_batches>>
    /\ UNCHANGED <<pipelineVars, codecVars, simVars, genVars>>

(***************************************************************************)
(* One iteration of "for record in data" once the flush is through: the    *)
(* existence check sees the committed rows and the transaction's own, and  *)
(* raises ValueError on a hit; otherwise the record is added.              *)
(***************************************************************************)
QueryExisting(i) ==
    LET x == tx[i].batch[tx[i].idx]
        existing_record == x \in SeqSet(table) \cup SeqSet(tx[i].written)
    IN  /\ tx[i].pc = "loop"
        /\ tx[i].pending = <<>>
        /\ IF existing_record
           THEN Raised(i, "ValueError")
           ELSE tx' = [tx EXCEPT ![i].pending = <<x>>,
                                 ![i].idx = tx[i].idx + 1,
                                 ![i].pc = IF tx[i].idx = Len(tx[i].batch)
                                           THEN "commit" ELSE "loop"]
        /\ UNCHANGED <<table, committed_batches>>
        /\ UNCHANGED <<pipelineVars, codecVars, simVars, genVars>>

(***************************************************************************)
(* session.commit() once the last row is flushed; process_batch then acks  *)
(* every handle of the batch.                                              *)
(***************************************************************************)
CommitBatch(i) ==
    /\ tx[i].pc = "commit"
    /\ tx[i].pending = <<>>
    /\ table' = table \o tx[i].written
    /\ committed_batches' = Append(committed_batches, tx[i].batch)
    /\ tx' = [tx EXCEPT ![i].pc = "committed", ![i].written = <<>>,
                        ![i].released = "ack"]
    /\ UNCHANGED <<pipelineVars, codecVars, simVars, genVars>>

StoreInit ==
    /\ PipelineAtRest
    /\ CodecIdle
    /\ SimulatorOff
    /\ GeneratorOff
    /\ table \in {<<>>, <<PriorId>>}
    /\ tx = [i \in Instances |-> NoTx]
    /\ committed_batches = <<>>

StoreNext ==
    \E i \in Instances :
        \/ \E batch \in Batches : BeginBatch(i, batch)
        \/ FlushPending(i)
        \/ DeadlockDetected(i)
        \/ QueryExisting(i)
        \/ CommitBatch(i)

StoreSpec == StoreInit /\ [][StoreNext]_vars

\* C24: with two consumer instances writing to the same store, under every
\* interleaving of their existence checks, inserts and commits the store
\* never holds two rows with the same id, and of two batches that contain
\* the same id at most one commits; a batch that does not commit has its
\* insert rejected and its handles nacked with requeue (checked under
\* StoreSpec).
NoDuplicateRow ==
    \A m, n \in 1..Len(table) : table[m] = table[n] => m = n
C24_NoDuplicateUnderCompetition ==
    /\ NoDuplicateRow
    /\ \A m, n \in 1..Len(committed_batches) :
          m # n => SeqSet(committed_batches[m]) \cap SeqSet(committed_batches[n]) = {}
    /\ \A i \in Instances :
          /\ tx[i].pc = "raised" => tx[i].released = "nack_requeue"
          /\ tx[i].pc = "committed" => tx[i].released = "ack"
          /\ tx[i].released = "ack" => SeqSet(tx[i].batch) \subseteq SeqSet(table)

C24_Witness ==
    /\ tx[1].pc = "committed"
    /\ tx[2].pc = "raised"
    /\ tx[2].error = "IntegrityError"
    /\ SeqSet(tx[1].batch) \cap SeqSet(tx[2].batch) # {}
    /\ tx[1].runs = 1
    /\ tx[2].runs = 1

====
